---- MODULE Spec2Model ----
(***************************************************************************)
(* State-machine model of the YouTube ingestion package (src/yt_ingest):   *)
(* the rotating NDJSON writer, the fixed-window rate limiter, the retrying *)
(* HTTP client, the three API wrappers and the per-channel pipeline that   *)
(* asyncio.gather fans out over the channel identifiers.                   *)
(*                                                                         *)
(* Units: byte counts are bytes; sleep durations are tenths of a second;   *)
(* clock readings are ticks of 1/TicksPerSec second.                       *)
(***************************************************************************)
EXTENDS Integers, Sequences, FiniteSets, TLC

(***************************************************************************)
(* Bounds of the model (not program constants).                            *)
(***************************************************************************)
NumChannels == 2
MaxWrites == 4
TicksPerSec == 2
MaxTime == 4
MaxCalls == 3

(***************************************************************************)
(* Program constants (src/yt_ingest/config.py).                            *)
(***************************************************************************)
MAX_RETRIES == 5
BATCH_SIZE_IDS == 50
DEFAULT_RPS == 8

Procs == 1..NumChannels
Streams == {"channels", "videos"}

VARIABLES
  part_size_mb,  \* run parameter handed to every NDJSONRotatingWriter
  w,             \* w[p][s]: the writer object of channel p for stream s
  fs,            \* fs[s]: the ingestion-date directory of stream s
  appended,      \* history: appended[p][s] = lines passed to buf.write, in order
  wlast,         \* history: last writer method called in the writer harness
  wprev,         \* history: the writer and its directory's files before that call
  sealed,        \* history: sealed[p][s] = the partitions the writer has written, in order
  aw,            \* the atomic_write_bytes activation of the storage harness
  impl,          \* which http_get_json runs: "yt_ingest" (http_client.py) or "main" (main.py)
  call,          \* call[p]: the http_get_json activation of channel p
  trace,         \* history: the outcomes of the session.get attempts of the harness call
  requests,      \* history: the parameters of the GETs sent by the harness call
  sleeps,        \* history: the asyncio.sleep durations of the harness call
  rps,           \* run parameter: the rps argument of RateLimiter
  limiter,       \* the RateLimiter object shared by all channel tasks
  now,           \* time.monotonic(), in ticks
  waitOn,        \* waitOn[p]: the semaphore instance task p is suspended on (0: none)
  grants,        \* history: grants[t] = acquire() calls that returned at tick t
  ncalls,        \* history: acquire() calls made by each caller of the limiter harness
  pc,            \* pc[p]: where task p stands
  loc,           \* loc[p]: the locals video_ids, page_token, details (out), i of task p
  max_videos,    \* run parameter
  nGets,         \* history: session.get requests sent
  nGrants,       \* history: acquire() calls that returned
  faults,        \* history: failed attempts the server has answered so far
  hist,          \* history: hist[p] = acquire() calls made and GETs sent per step by task p
  raisers,       \* history: the tasks that raised, in the order they raised
  error,         \* the exception ingest_from_channel_reference raised to its caller
  run            \* state of ingest_from_channel_reference: "running", "failed", "done"

writerVars == <<part_size_mb, w, fs, appended, wlast, wprev, sealed, aw>>

httpVars == <<impl, call, trace, requests, sleeps>>

limVars == <<rps, limiter, now, waitOn, grants, ncalls>>

pipeRest == <<loc, max_videos, nGets, nGrants, faults, hist, raisers, error, run>>

pipeVars == <<pc, loc, max_videos, nGets, nGrants, faults, hist, raisers, error, run>>

vars == <<part_size_mb, w, fs, appended, wlast, wprev, sealed, aw, impl, call, trace, requests, sleeps,
          rps, limiter, now, waitOn, grants, ncalls,
          pc, loc, max_videos, nGets, nGrants, faults, hist, raisers, error, run>>

(***************************************************************************)
(* utils.py                                                                *)
(***************************************************************************)
NoDir == [exists |-> FALSE, files |-> <<>>]

\* os.makedirs(path, exist_ok=True): creates the directory when absent and
\* leaves an existing one (and its files) alone.
ensure_dir(dir) == IF dir.exists THEN dir ELSE [exists |-> TRUE, files |-> <<>>]

\* The file map of a directory is a function from file names to contents.
WriteFile(files, name, data) == [n \in (DOMAIN files) \cup {name} |-> IF n = name THEN data ELSE files[n]]

RemoveFile(files, name) == [n \in (DOMAIN files) \ {name} |-> files[n]]

\* Mutant: the payload is written under the final name.
TmpNameFinal(path_final) == path_final

\* f"{path_final}.tmp"
TmpName(path_final) == [path_final EXCEPT !.tmp = TRUE]

\* open(tmp, "wb"); write; flush; fsync; os.replace(tmp, path_final):
\* os.replace overwrites an existing path_final.
atomic_write_bytes(files, path_final, data) == LET tmp == TmpName(path_final)
      written == WriteFile(files, tmp, data)
  IN  RemoveFile(WriteFile(written, path_final, written[tmp]), tmp)

(***************************************************************************)
(* atomic_write_bytes statement by statement.  What a reader of the        *)
(* directory finds in a file being written is none of the payload, a part  *)
(* of it, or all of it; a file holding all of it is the payload itself.    *)
(***************************************************************************)
FileContent(data, k) == IF k = "all" THEN data ELSE [partial |-> k, of |-> data]

\* The amounts of a payload a file may hold, up to the amount k.
UpTo(k) == IF k = "none" THEN {"none"} ELSE IF k = "part" THEN {"none", "part"} ELSE {"none", "part", "all"}

\* No activation; log is the history of the payloads that were written to
\* a temporary file in full and fsynced.
NoWrite == [step |-> "none", path |-> [part |-> 0, tmp |-> FALSE], data |-> [gz |-> <<>>], held |-> "none", durable |-> FALSE, before |-> <<>>, log |-> {}]

\* atomic_write_bytes(path_final, data) is entered; step names the next
\* statement, before is the directory as the call found it.
aw_call(a, files, path_final, data) == [step |-> "open", path |-> path_final, data |-> data, held |-> "none", durable |-> FALSE, before |-> files, log |-> a.log]

\* open(tmp, "wb"): the temporary file is created, or truncated, empty.
aw_open(a, files) == [a |-> [a EXCEPT !.step = "write", !.held = "none"],
                      files |-> WriteFile(files, TmpName(a.path), FileContent(a.data, "none"))]

\* f.write(data): the buffered writer passes on to the file as much of the
\* payload as it does not keep in its buffer (k).
aw_write(a, files, k) == [a |-> [a EXCEPT !.step = "flush", !.held = k],
                          files |-> WriteFile(files, TmpName(a.path), FileContent(a.data, k))]

\* f.flush(): the file holds the whole payload.
aw_flush(a, files) == [a |-> [a EXCEPT !.step = "fsync", !.held = "all"],
                       files |-> WriteFile(files, TmpName(a.path), FileContent(a.data, "all"))]

\* os.fsync(f.fileno()), and the end of the with block: the payload is on
\* stable storage.
aw_fsync(a, files) == [a |-> [a EXCEPT !.step = "replace", !.durable = TRUE, !.log = @ \cup {files[TmpName(a.path)]}],
                       files |-> files]

\* os.replace(tmp, path_final): the final name takes over the temporary
\* file, replacing what it named before.
aw_replace(a, files) == [a |-> [a EXCEPT !.step = "done"],
                         files |-> RemoveFile(WriteFile(files, a.path, files[TmpName(a.path)]), TmpName(a.path))]

\* The statement a.step names is executed.
aw_step(a, files, k) == IF a.step = "open" THEN aw_open(a, files)
  ELSE IF a.step = "write" THEN aw_write(a, files, k)
  ELSE IF a.step = "flush" THEN aw_flush(a, files)
  ELSE IF a.step = "fsync" THEN aw_fsync(a, files)
  ELSE aw_replace(a, files)

\* The process dies before the statement a.step names: what was not
\* fsynced may be lost, down to the amount `kept` of the temporary file.
aw_crash(a, files, kept) == [a |-> [a EXCEPT !.step = "crashed"],
  files |-> IF TmpName(a.path) \in DOMAIN files /\ a.step # "open" /\ ~a.durable
            THEN WriteFile(files, TmpName(a.path), FileContent(a.data, kept)) ELSE files]

(***************************************************************************)
(* io_ndjson.py                                                            *)
(***************************************************************************)
\* A record's serialisation is opaque (the payload is relayed verbatim): a
\* line carries the object it encodes and its length in bytes.
JsonLine(obj) == [text |-> obj, nbytes |-> obj.nbytes]

RECURSIVE BufTell(_)
\* io.BytesIO.tell() after sequential writes: the number of bytes written.
BufTell(buf) == IF buf = <<>> THEN 0 ELSE Head(buf).nbytes + BufTell(Tail(buf))

\* gzip.compress wraps the whole buffer as one block; decompress unwraps it.
gzip_compress(bytes) == [gz |-> bytes]

gzip_decompress(blob) == blob.gz

\* Mutant: every other index is skipped.
PartPathSkip(file_index) == [part |-> 2 * file_index, tmp |-> FALSE]

\* f"part-{file_index:05d}.ndjson.gz": one name per index.
PartPath(file_index) == [part |-> file_index, tmp |-> FALSE]

NoWriter == [out_dir |-> "none", target_bytes |-> 0, buf |-> <<>>, file_index |-> 0, count |-> 0]

NDJSONRotatingWriter(out_dir, mb) == [out_dir |-> out_dir, target_bytes |-> mb * 1024 * 1024, buf |-> <<>>, file_index |-> 0, count |-> 0]

\* Mutant: the partition index is not advanced after a rotation.
RotateSameIndex(ws, files) == IF BufTell(ws.buf) = 0 THEN [w |-> ws, files |-> files]
  ELSE [w |-> [ws EXCEPT !.buf = <<>>],
        files |-> atomic_write_bytes(files, PartPath(ws.file_index), gzip_compress(ws.buf))]

_rotate(ws, files) == IF BufTell(ws.buf) = 0 THEN [w |-> ws, files |-> files]
  ELSE [w |-> [ws EXCEPT !.file_index = @ + 1, !.buf = <<>>],
        files |-> atomic_write_bytes(files, PartPath(ws.file_index), gzip_compress(ws.buf))]

\* Mutant: the rotation fires at half the threshold.
write_line_half(ws, files, obj) == LET w1 == [ws EXCEPT !.buf = Append(@, JsonLine(obj)), !.count = @ + 1]
  IN  IF 2 * BufTell(w1.buf) >= w1.target_bytes THEN _rotate(w1, files) ELSE [w |-> w1, files |-> files]

write_line(ws, files, obj) == LET w1 == [ws EXCEPT !.buf = Append(@, JsonLine(obj)), !.count = @ + 1]
  IN  IF BufTell(w1.buf) >= w1.target_bytes THEN _rotate(w1, files) ELSE [w |-> w1, files |-> files]

\* Mutant: close() writes a partition whatever the buffer holds.
close_unguarded(ws, files) == [w |-> [ws EXCEPT !.file_index = @ + 1, !.buf = <<>>],
  files |-> atomic_write_bytes(files, PartPath(ws.file_index), gzip_compress(ws.buf))]

close(ws, files) == _rotate(ws, files)

\* History: the partition a call has written, if it has written one.  buf
\* is the buffer as _rotate found it, r the writer and the files after the
\* call, by the method that was called.
Logged(log, ws, buf, r, by) == IF buf # <<>> /\ r.w.buf = <<>>
  THEN Append(log, [path |-> PartPath(ws.file_index), by |-> by, lines |-> buf])
  ELSE log

(***************************************************************************)
(* Reading a directory back: the partitions in index order, decompressed.  *)
(***************************************************************************)
PartIndices(files) == {n.part : n \in {m \in DOMAIN files : ~m.tmp}}

RECURSIVE ConcatParts(_, _, _)
ConcatParts(files, i, n) == IF i >= n THEN <<>>
  ELSE (IF PartPath(i) \in DOMAIN files THEN gzip_decompress(files[PartPath(i)]) ELSE <<>>) \o ConcatParts(files, i + 1, n)

MaxPart(files) == IF PartIndices(files) = {} THEN 0 ELSE 1 + CHOOSE i \in PartIndices(files) : \A j \in PartIndices(files) : j <= i

ReadDir(files) == ConcatParts(files, 0, MaxPart(files))

(***************************************************************************)
(* http_client.py (and the older copy of http_get_json in main.py)         *)
(***************************************************************************)
\* A JSON object: the keys present and the values of the keys the code reads.
EmptyJson == [keys |-> {}, items |-> <<>>, nextPageToken |-> ""]

\* dict.get(key, default)
dict_get(data, key, default) == IF key \in data.keys THEN data[key] ELSE default

RETRY_STATUSES == {429, 500, 502, 503, 504}

\* The outcome of one session.get(...): a response with a status and a body,
\* or a transport exception raised instead of a response.
\* decodes: whether response.json() can decode the body.
Response(status, body, decodes) == [kind |-> "response", status |-> status, body |-> body, decodes |-> decodes, exc |-> "none"]

TransportError(exc) == [kind |-> "error", status |-> 0, body |-> EmptyJson, decodes |-> FALSE, exc |-> exc]

\* Mutant: the power is taken for a product.
StatusBackoffProduct(attempt) == 10 * (2 * attempt) + attempt

\* (2 ** attempt) + 0.1 * attempt seconds, in tenths of a second.
StatusBackoff(attempt) == 10 * (2 ^ attempt) + attempt

\* (2 ** attempt) + 0.2 * attempt seconds, in tenths of a second.
ExceptBackoff(attempt) == 10 * (2 ^ attempt) + 2 * attempt

\* aiohttp's ClientResponse.raise_for_status raises ClientResponseError
\* when the status is 400 or above.
raise_for_status(status) == status >= 400

\* aiohttp.ClientResponseError and ClientConnectionError derive from
\* aiohttp.ClientError; main.py catches Exception.
ExceptClauseMatches(im, exc) ==
  \/ im = "main"
  \/ exc \in {"ClientResponseError", "ClientConnectionError", "TimeoutError"}

Idle == [attempt |-> 0, phase |-> "idle", sleep |-> 0, body |-> EmptyJson, exc |-> "none", status |-> 0]

Returns(c, body) == [c EXCEPT !.phase = "returned", !.body = body, !.sleep = 0]

Raises(c, exc, status) == [c EXCEPT !.phase = "raised", !.exc = exc, !.status = status, !.sleep = 0]

Sleeps(c, dur) == [c EXCEPT !.phase = "sleep", !.sleep = dur]

\* Mutant: the last-attempt test is off by one, so the last exception is swallowed.
IsLastAttemptNever(attempt) == attempt = MAX_RETRIES

\* attempt == MAX_RETRIES - 1
IsLastAttempt(attempt) == attempt = MAX_RETRIES - 1

\* The except clause of the loop body, entered with exception exc.
http_except(im, c, exc, status) == IF ~ExceptClauseMatches(im, exc) THEN Raises(c, exc, status)
  ELSE IF IsLastAttempt(c.attempt) THEN Raises(c, exc, status)
  ELSE Sleeps(c, ExceptBackoff(c.attempt))

\* The retryable-status branch: sleep, then continue.
http_status_retry(c) == Sleeps(c, StatusBackoff(c.attempt))

\* One pass through the loop body, given the outcome of session.get.
http_attempt(im, c, out) == IF out.kind = "error" THEN http_except(im, c, out.exc, 0)
  ELSE IF out.status \in RETRY_STATUSES THEN http_status_retry(c)
  ELSE IF raise_for_status(out.status) THEN http_except(im, c, "ClientResponseError", out.status)
  ELSE IF ~out.decodes THEN http_except(im, c, "JSONDecodeError", out.status)
  ELSE Returns(c, out.body)

\* Mutant: main.py's fall-through result in the package as well.
http_exhausted_empty(im, c) == Returns(c, EmptyJson)

\* The statement after the for loop: raise RuntimeError (http_client.py),
\* return {} (main.py).
http_exhausted(im, c) == IF im = "main" THEN Returns(c, EmptyJson) ELSE Raises(c, "RuntimeError", 0)

\* asyncio.sleep returned: the next iteration of range(MAX_RETRIES), or the
\* statement after the loop when the range is exhausted.
http_after_sleep(im, c) == IF c.attempt + 1 < MAX_RETRIES THEN [c EXCEPT !.attempt = @ + 1, !.phase = "get", !.sleep = 0]
  ELSE http_exhausted(im, [c EXCEPT !.sleep = 0])

\* Entry of http_get_json, before the first iteration.
http_get_json(im) == IF MAX_RETRIES <= 0 THEN (IF im = "main" THEN Returns(Idle, EmptyJson) ELSE Raises(Idle, "ValueError", 0))
  ELSE [Idle EXCEPT !.phase = "get"]

(***************************************************************************)
(* rate_limiter.py                                                         *)
(***************************************************************************)
Max(a, b) == IF a >= b THEN a ELSE b

Min(a, b) == IF a <= b THEN a ELSE b

\* __init__: self.rps = max(1, rps); self.sem = asyncio.Semaphore(self.rps);
\* self.last_reset = time.monotonic().  sem_id names the Semaphore object
\* self.sem refers to (instances are numbered from 1), sem_value is its _value.
RateLimiter(r, t) == [rps |-> Max(1, r), sem_id |-> 1, sem_value |-> Max(1, r), last_reset |-> t]

\* Mutant: the window test is always true.
WindowElapsedAlways(L, t) == t - L.last_reset >= 0

\* now - self.last_reset >= 1.0
WindowElapsed(L, t) == t - L.last_reset >= TicksPerSec

\* The first three lines of acquire(): a fresh Semaphore object replaces
\* self.sem once the window has elapsed.  Tasks suspended on the replaced
\* object stay on its waiter queue.
acquire_reset(L, t) == IF WindowElapsed(L, t) THEN [L EXCEPT !.sem_id = @ + 1, !.sem_value = L.rps, !.last_reset = t] ELSE L

\* asyncio.Semaphore.acquire on self.sem: with _value > 0 (and hence no
\* waiter) it decrements and returns without suspending; otherwise the
\* caller is queued on that Semaphore object until a release() wakes it.
\* No code of the repository calls release().
sem_locked(L) == L.sem_value = 0

acquire(L, t) == LET L1 == acquire_reset(L, t)
  IN  IF sem_locked(L1) THEN [limiter |-> L1, granted |-> FALSE, wait |-> L1.sem_id]
      ELSE [limiter |-> [L1 EXCEPT !.sem_value = @ - 1], granted |-> TRUE, wait |-> 0]

(***************************************************************************)
(* youtube_api.py                                                          *)
(***************************************************************************)
\* An item of a response: for search.list, kind is it["id"]["kind"] and id
\* is it["id"]["videoId"] ("" when absent); for channels.list and
\* videos.list, id is it["id"].  nbytes is the length of the line that
\* relays the item.
Item(kind, id, nbytes) == [kind |-> kind, id |-> id, nbytes |-> nbytes]

Body(items, token) == [keys |-> IF token = "" THEN {"items"} ELSE {"items", "nextPageToken"}, items |-> items, nextPageToken |-> token]

ItemIds(items) == [i \in 1..Len(items) |-> items[i].id]

\* if it.get("id", {}).get("kind") == "youtube#video": vid = ...; if vid:
IsVideoItem(it) == it.kind = "youtube#video" /\ it.id # ""

Retained(items) == SelectSeq(items, IsVideoItem)

\* The body of the while loop of search_list_videos_of_channel after a page.
search_page(L, data) == [L EXCEPT !.video_ids = @ \o ItemIds(Retained(dict_get(data, "items", <<>>))),
                                   !.page_token = dict_get(data, "nextPageToken", "")]

\* while len(video_ids) < max_videos, after "if not page_token: break".
search_continues(L, mv) == L.page_token # "" /\ Len(L.video_ids) < mv

\* Mutant: the slice takes one ID too many.
ChunkOneMore(video_ids, i) == SubSeq(video_ids, i + 1, Min(i + BATCH_SIZE_IDS + 1, Len(video_ids)))

\* video_ids[i : i + BATCH_SIZE_IDS]
Chunk(video_ids, i) == SubSeq(video_ids, i + 1, Min(i + BATCH_SIZE_IDS, Len(video_ids)))

\* out.extend(data.get("items", [])), and the next i of the range.
details_chunk(L, data) == [L EXCEPT !.details = @ \o dict_get(data, "items", <<>>), !.i = @ + BATCH_SIZE_IDS]

details_continues(L) == L.i < Len(L.video_ids)

(***************************************************************************)
(* pipeline.py: _ingest_single_channel.  A task runs from one suspension   *)
(* point (a response awaited, a sleep, a full semaphore) to the next; M is *)
(* the part of the state one such run reads and writes.                    *)
(***************************************************************************)
\* The number of characters json.dumps writes for a non-negative integer.
RECURSIVE DecLen(_)
DecLen(n) == IF n < 10 THEN 1 ELSE 1 + DecLen(n \div 10)

ChannelRecord(item) == [type |-> "youtube_channel", channelId |-> item.id, videoId |-> "", nbytes |-> item.nbytes]

\* The encoded info line has 169 bytes besides the channel id (the keys, the
\* 20-character timestamp, the fixed values and the newline).
InfoRecord(cid) == [type |-> "info", channelId |-> cid, videoId |-> "", nbytes |-> 169 + DecLen(cid)]

VideoRecord(cid, it) == [type |-> "youtube_video", channelId |-> cid, videoId |-> it.id, nbytes |-> it.nbytes]

\* The encoded not_found line has 141 bytes besides the two ids.
NotFoundRecord(cid, vid) == [type |-> "not_found", channelId |-> cid, videoId |-> vid, nbytes |-> 141 + DecLen(cid) + Len(vid)]

Lines(objs) == [i \in 1..Len(objs) |-> JsonLine(objs[i])]

\* One write_line call on the writer of stream s.
StWriteLine(st, s, obj) == LET r == write_line(st.w[s], st.fs[s].files, obj)
  IN  [w |-> [st.w EXCEPT ![s] = r.w], fs |-> [st.fs EXCEPT ![s].files = r.files],
       app |-> [st.app EXCEPT ![s] = Append(@, JsonLine(obj))],
       sealed |-> [st.sealed EXCEPT ![s] = Logged(@, st.w[s], Append(st.w[s].buf, JsonLine(obj)), r, "write_line")]]

RECURSIVE StWrite(_, _, _)
\* A for loop of write_line calls, with no suspension point between them.
StWrite(st, s, objs) == IF objs = <<>> THEN st ELSE StWrite(StWriteLine(st, s, Head(objs)), s, Tail(objs))

StClose(st, s) == LET r == close(st.w[s], st.fs[s].files)
  IN  [st EXCEPT !.w[s] = r.w, !.fs[s].files = r.files, !.sealed[s] = Logged(@, st.w[s], st.w[s].buf, r, "close")]

\* w_channels.close(); w_videos.close()
CloseBoth(st) == StClose(StClose(st, "channels"), "videos")

\* session.get on a session that was closed raises RuntimeError before any
\* request is made; the except clause of http_get_json does not match it.
get_on_closed(M, c) == [M EXCEPT !.pc = "raised", !.call = http_except("yt_ingest", c, "RuntimeError", 0)]

\* session.get is entered: the request is on the wire and the task awaits
\* the response.
SendGet(M, stage) == IF M.closed THEN get_on_closed(M, http_get_json("yt_ingest"))
  ELSE [M EXCEPT !.pc = stage, !.call = http_get_json("yt_ingest"), !.ngets = @ + 1, !.hist.gets[stage] = @ + 1]

\* Mutant: the audit keeps the IDs that were returned.
MissingReturned(video_ids, returned) == SelectSeq(video_ids, LAMBDA vid : vid \in returned)

\* missing = [vid for vid in video_ids if vid not in returned]
Missing(video_ids, returned) == SelectSeq(video_ids, LAMBDA vid : vid \notin returned)

\* Lines 75-102: the video-records, the audit, and the two close() calls.
AfterVideos(M, cid) == LET details == M.loc.details
      returned == {details[i].id : i \in 1..Len(details)}
      videos == [i \in 1..Len(details) |-> VideoRecord(cid, details[i])]
      missing == Missing(M.loc.video_ids, returned)
      audit == [i \in 1..Len(missing) |-> NotFoundRecord(cid, missing[i])]
  IN  [M EXCEPT !.pc = "done", !.st = CloseBoth(StWrite(StWrite(M.st, "videos", videos), "videos", audit))]

\* await limiter.acquire() at clock reading t, then `enter` when it returns.
Acquired(M, t) == LET r == acquire(M.lim, t)
  IN  IF r.granted THEN [M EXCEPT !.lim = r.limiter, !.ngrants = @ + 1, !.hist.acq = @ + 1]
      ELSE [M EXCEPT !.lim = r.limiter, !.pc = "blocked", !.wait = r.wait, !.hist.acq = @ + 1]

\* Mutant: no early return on an empty listing.
AfterSearchNoReturn(M, cid, t) == LET M1 == Acquired(M, t) IN IF M1.pc = "blocked" THEN M1 ELSE SendGet(M1, "videos_list")

\* Lines 59-74: the early return on an empty listing, else step 3.
AfterSearch(M, cid, t) == IF M.loc.video_ids = <<>> THEN [M EXCEPT !.pc = "done", !.st = CloseBoth(StWrite(M.st, "channels", <<InfoRecord(cid)>>))]
  ELSE LET M1 == Acquired(M, t) IN IF M1.pc = "blocked" THEN M1 ELSE SendGet(M1, "videos_list")

\* Lines 54-57: step 2, up to the first page request (none when the while
\* condition fails at once).
EnterSearch(M, cid, t, mv) == LET M1 == Acquired(M, t)
  IN  IF M1.pc = "blocked" THEN M1
      ELSE IF Len(M1.loc.video_ids) < mv THEN SendGet(M1, "search_list")
      ELSE AfterSearch(M1, cid, t)

\* http_get_json returned `data` to the API wrapper the task is in.
OnReturn(M, cid, data, t, mv) == IF M.pc = "channels_list"
    THEN LET items == dict_get(data, "items", <<>>)
             recs == [i \in 1..Len(items) |-> ChannelRecord(items[i])]
         IN  EnterSearch([M EXCEPT !.st = StWrite(M.st, "channels", recs)], cid, t, mv)
  ELSE IF M.pc = "search_list"
    THEN LET M1 == [M EXCEPT !.loc = search_page(M.loc, data)]
         IN  IF search_continues(M1.loc, mv) THEN SendGet(M1, "search_list") ELSE AfterSearch(M1, cid, t)
  ELSE LET M1 == [M EXCEPT !.loc = details_chunk(M.loc, data)]
       IN  IF details_continues(M1.loc) THEN SendGet(M1, "videos_list") ELSE AfterVideos(M1, cid)

\* Mutant: the writers are closed when the call raises.
OnOutcomeClosing(M, cid, out, t, mv) == LET c1 == http_attempt("yt_ingest", M.call, out)
  IN  IF c1.phase = "returned" THEN OnReturn([M EXCEPT !.call = c1], cid, c1.body, t, mv)
      ELSE IF c1.phase = "raised" THEN [M EXCEPT !.call = c1, !.pc = "raised", !.st = CloseBoth(M.st)]
      ELSE [M EXCEPT !.call = c1]

\* The response (or the transport failure) of the pending session.get.
OnOutcome(M, cid, out, t, mv) == LET c1 == http_attempt("yt_ingest", M.call, out)
  IN  IF c1.phase = "returned" THEN OnReturn([M EXCEPT !.call = c1], cid, c1.body, t, mv)
      ELSE IF c1.phase = "raised" THEN [M EXCEPT !.call = c1, !.pc = "raised"]
      ELSE [M EXCEPT !.call = c1]

\* asyncio.sleep returned inside http_get_json.
OnWake(M, cid, t, mv) == LET c1 == http_after_sleep("yt_ingest", M.call)
  IN  IF c1.phase = "get" THEN (IF M.closed THEN get_on_closed(M, c1) ELSE [M EXCEPT !.call = c1, !.ngets = @ + 1, !.hist.gets[M.pc] = @ + 1])
      ELSE IF c1.phase = "raised" THEN [M EXCEPT !.call = c1, !.pc = "raised"]
      ELSE OnReturn([M EXCEPT !.call = c1], cid, c1.body, t, mv)

\* Lines 37-42: the two writers, then step 1.
OnStart(M, mb, t) == LET st == [w |-> [channels |-> NDJSONRotatingWriter("channels", mb), videos |-> NDJSONRotatingWriter("videos", mb)],
             fs |-> [s \in Streams |-> ensure_dir(M.st.fs[s])], app |-> M.st.app, sealed |-> M.st.sealed]
      M1 == Acquired([M EXCEPT !.st = st], t)
  IN  IF M1.pc = "blocked" THEN M1 ELSE SendGet(M1, "channels_list")

(***************************************************************************)
(* Writer harness: one writer, any sequence of write_line and close calls. *)
(***************************************************************************)
PartSizesMB == {0 - 1, 0, 1, 2}
LineSizes == {400000, 700000, 1100000}
VideoIds == {"a", "b", "c"}
HarnessObjs == [type : {"youtube_video"}, channelId : {1}, videoId : VideoIds, nbytes : LineSizes]

EmptyDirs == [s \in Streams |-> NoDir]
NoWriters == [p \in Procs |-> [s \in Streams |-> NoWriter]]
NoLines == [p \in Procs |-> [s \in Streams |-> <<>>]]
NoPrev == [w |-> NoWriter, files |-> <<>>]
NoCalls == [p \in Procs |-> Idle]
NoGrants == [t \in 0..MaxTime |-> 0]

WriterIdle == /\ part_size_mb = 1 /\ w = NoWriters /\ fs = EmptyDirs /\ appended = NoLines /\ wlast = "init"
              /\ wprev = NoPrev /\ sealed = NoLines /\ aw = NoWrite

HttpIdle == impl = "yt_ingest" /\ call = NoCalls /\ trace = <<>> /\ requests = <<>> /\ sleeps = <<>>

LimIdle == rps = DEFAULT_RPS /\ limiter = RateLimiter(rps, 0) /\ now = 0 /\ waitOn = [p \in Procs |-> 0] /\ grants = NoGrants /\ ncalls = [p \in Procs |-> 0]

NoLocals == [video_ids |-> <<>>, page_token |-> "", details |-> <<>>, i |-> 0]

NoHist == [p \in Procs |-> [acq |-> 0, gets |-> [channels_list |-> 0, search_list |-> 0, videos_list |-> 0]]]
NoError == [by |-> 0, exc |-> "none", gets |-> 0, files |-> <<>>]

PipeRestIdle == /\ loc = [p \in Procs |-> NoLocals] /\ max_videos = 0 /\ nGets = 0 /\ nGrants = 0 /\ faults = 0
                /\ hist = NoHist /\ raisers = <<>> /\ error = NoError /\ run = "idle"

PipeIdle == pc = [p \in Procs |-> "idle"] /\ PipeRestIdle

InitWriter ==
  /\ part_size_mb \in PartSizesMB
  /\ w = [NoWriters EXCEPT ![1]["videos"] = NDJSONRotatingWriter("videos", part_size_mb)]
  /\ fs = [EmptyDirs EXCEPT !["videos"] = ensure_dir(NoDir)]
  /\ appended = NoLines
  /\ wlast = "init"
  /\ wprev = NoPrev /\ sealed = NoLines /\ aw = NoWrite
  /\ HttpIdle /\ LimIdle /\ PipeIdle

WriterWriteLine == \E obj \in HarnessObjs :
  /\ Len(appended[1]["videos"]) < MaxWrites
  /\ LET r == write_line(w[1]["videos"], fs["videos"].files, obj)
     IN  /\ w' = [w EXCEPT ![1]["videos"] = r.w]
         /\ fs' = [fs EXCEPT !["videos"].files = r.files]
         /\ sealed' = [sealed EXCEPT ![1]["videos"] = Logged(@, w[1]["videos"], Append(w[1]["videos"].buf, JsonLine(obj)), r, "write_line")]
  /\ appended' = [appended EXCEPT ![1]["videos"] = Append(@, JsonLine(obj))]
  /\ wlast' = "write_line"
  /\ wprev' = [w |-> w[1]["videos"], files |-> fs["videos"].files]
  /\ UNCHANGED <<part_size_mb, aw, httpVars, limVars, pipeVars>>

WriterClose ==
  /\ LET r == close(w[1]["videos"], fs["videos"].files)
     IN  /\ w' = [w EXCEPT ![1]["videos"] = r.w]
         /\ fs' = [fs EXCEPT !["videos"].files = r.files]
         /\ sealed' = [sealed EXCEPT ![1]["videos"] = Logged(@, w[1]["videos"], w[1]["videos"].buf, r, "close")]
  /\ wlast' = "close"
  /\ wprev' = [w |-> w[1]["videos"], files |-> fs["videos"].files]
  /\ UNCHANGED <<part_size_mb, appended, aw, httpVars, limVars, pipeVars>>

NextWriter == WriterWriteLine \/ WriterClose

SpecWriter == InitWriter /\ [][NextWriter]_vars

(***************************************************************************)
(* Storage harness: atomic_write_bytes calls on one directory, executed    *)
(* statement by statement, the process dying at any point and the next     *)
(* process calling again.                                                  *)
(***************************************************************************)
StoragePaths == {PartPath(0), PartPath(1)}
StoragePayloads == {gzip_compress(<<JsonLine(obj)>>) : obj \in {o \in HarnessObjs : o.nbytes = 400000 /\ o.videoId \in {"a", "b"}}}
Amounts == {"none", "part", "all"}
AwRunning == aw.step \in {"open", "write", "flush", "fsync", "replace"}

InitStorage ==
  /\ part_size_mb = 1 /\ w = NoWriters /\ appended = NoLines /\ wlast = "init"
  /\ fs = [EmptyDirs EXCEPT !["videos"] = ensure_dir(NoDir)]
  /\ wprev = NoPrev /\ sealed = NoLines /\ aw = NoWrite
  /\ HttpIdle /\ LimIdle /\ PipeIdle

StorageCall == \E path_final \in StoragePaths, data \in StoragePayloads :
  /\ ~AwRunning
  /\ aw' = aw_call(aw, fs["videos"].files, path_final, data)
  /\ UNCHANGED <<part_size_mb, w, fs, appended, wlast, wprev, sealed, httpVars, limVars, pipeVars>>

StorageStep == \E k \in Amounts :
  /\ AwRunning
  /\ LET r == aw_step(aw, fs["videos"].files, k)
     IN  /\ aw' = r.a
         /\ fs' = [fs EXCEPT !["videos"].files = r.files]
  /\ UNCHANGED <<part_size_mb, w, appended, wlast, wprev, sealed, httpVars, limVars, pipeVars>>

StorageCrash == \E kept \in UpTo(aw.held) :
  /\ AwRunning
  /\ LET r == aw_crash(aw, fs["videos"].files, kept)
     IN  /\ aw' = r.a
         /\ fs' = [fs EXCEPT !["videos"].files = r.files]
  /\ UNCHANGED <<part_size_mb, w, appended, wlast, wprev, sealed, httpVars, limVars, pipeVars>>

NextStorage == StorageCall \/ StorageStep \/ StorageCrash

SpecStorage == InitStorage /\ [][NextStorage]_vars

(***************************************************************************)
(* HTTP harness: one http_get_json call against every server behaviour.    *)
(***************************************************************************)
Statuses == {200, 400, 403, 404} \cup RETRY_STATUSES
HarnessBodies == {[keys |-> {"items"}, items |-> <<"a">>, nextPageToken |-> ""], EmptyJson}
TransportExcs == {"ClientConnectionError", "TimeoutError"}
Outcomes == {Response(s, EmptyJson, TRUE) : s \in Statuses \ {200}} \cup {Response(200, b, TRUE) : b \in HarnessBodies}
  \cup {Response(200, EmptyJson, FALSE)} \cup {TransportError(e) : e \in TransportExcs}

InitHttp ==
  /\ impl \in {"yt_ingest", "main"}
  /\ call = [NoCalls EXCEPT ![1] = http_get_json(impl)]
  /\ trace = <<>>
  /\ requests = <<>>
  /\ sleeps = <<>>
  /\ WriterIdle /\ LimIdle /\ PipeIdle

HarnessGet == \E out \in Outcomes :
  /\ call[1].phase = "get"
  /\ call' = [call EXCEPT ![1] = http_attempt(impl, @, out)]
  /\ trace' = Append(trace, out)
  /\ sleeps' = IF call'[1].phase = "sleep" THEN Append(sleeps, call'[1].sleep) ELSE sleeps
  /\ UNCHANGED <<impl, requests, writerVars, limVars, pipeVars>>

HarnessWake ==
  /\ call[1].phase = "sleep"
  /\ call' = [call EXCEPT ![1] = http_after_sleep(impl, @)]
  /\ UNCHANGED <<impl, trace, requests, sleeps, writerVars, limVars, pipeVars>>

NextHttp == HarnessGet \/ HarnessWake

SpecHttp == InitHttp /\ [][NextHttp]_vars

(***************************************************************************)
(* Limiter harness: concurrent callers of one RateLimiter, each calling    *)
(* acquire() up to MaxCalls times at any clock reading.                    *)
(***************************************************************************)
RpsValues == {0, 1, 2}

InitLimiter ==
  /\ rps \in RpsValues
  /\ limiter = RateLimiter(rps, 0)
  /\ now = 0
  /\ waitOn = [p \in Procs |-> 0]
  /\ grants = NoGrants
  /\ ncalls = [p \in Procs |-> 0]
  /\ pc = [p \in Procs |-> "caller"]
  /\ PipeRestIdle
  /\ WriterIdle /\ HttpIdle

\* time.monotonic() advances.
Tick ==
  /\ now < MaxTime
  /\ now' = now + 1
  /\ UNCHANGED <<rps, limiter, waitOn, grants, ncalls, pipeVars, writerVars, httpVars>>

CallerAcquire(p) ==
  /\ pc[p] = "caller"
  /\ ncalls[p] < MaxCalls
  /\ LET r == acquire(limiter, now)
     IN  /\ limiter' = r.limiter
         /\ waitOn' = [waitOn EXCEPT ![p] = r.wait]
         /\ pc' = [pc EXCEPT ![p] = IF r.granted THEN "caller" ELSE "blocked"]
         /\ grants' = IF r.granted THEN [grants EXCEPT ![now] = @ + 1] ELSE grants
  /\ ncalls' = [ncalls EXCEPT ![p] = @ + 1]
  /\ UNCHANGED <<rps, now, pipeRest, writerVars, httpVars>>

NextLimiter == Tick \/ \E p \in Procs : CallerAcquire(p)

SpecLimiter == InitLimiter /\ [][NextLimiter]_vars

\* asyncio runs every task that is ready, and the clock advances.
FairSpecLimiter == SpecLimiter /\ WF_vars(Tick) /\ \A p \in Procs : WF_vars(CallerAcquire(p))

(***************************************************************************)
(* The run: ingest_from_channel_reference over NumChannels channels.       *)
(***************************************************************************)
MaxVideos == 2
MaxPageItems == 1
MaxFaults == 2
PipeMaxTime == 2
MaxGets == 7

PipeSizes == {600000}
PipeVideoIds == {"a", "b"}
ApiStages == {"channels_list", "search_list", "videos_list"}

RECURSIVE SeqsUpTo(_, _)
SeqsUpTo(S, n) == IF n = 0 THEN {<<>>} ELSE LET shorter == SeqsUpTo(S, n - 1) IN shorter \cup {Append(q, x) : q \in shorter, x \in S}

ChannelSizes == {600000, 1100000}
ChannelItems(cid) == {Item("youtube#channel", cid, n) : n \in ChannelSizes}
SearchItems == {Item("youtube#video", v, 0) : v \in PipeVideoIds} \cup {Item("youtube#channel", "x", 0), Item("youtube#video", "", 0)}
DetailItems == {Item("youtube#video", v, n) : v \in PipeVideoIds, n \in PipeSizes}

\* What the remote API may answer to a request of the given wrapper.
GoodBodies(stage, cid) == IF stage = "channels_list" THEN {Body(q, "") : q \in SeqsUpTo(ChannelItems(cid), 1)}
  ELSE IF stage = "search_list" THEN {Body(q, tok) : q \in SeqsUpTo(SearchItems, MaxPageItems), tok \in {"", "next"}}
  ELSE {Body(q, "") : q \in SeqsUpTo(DetailItems, MaxPageItems)}

FaultOutcomes == {Response(503, EmptyJson, TRUE), Response(404, EmptyJson, TRUE), Response(200, EmptyJson, FALSE), TransportError("TimeoutError")}

MOf(p) == [pc |-> pc[p], call |-> call[p], loc |-> loc[p], st |-> [w |-> w[p], fs |-> fs, app |-> appended[p], sealed |-> sealed[p]],
           lim |-> limiter, wait |-> waitOn[p], ngets |-> nGets, ngrants |-> nGrants, hist |-> hist[p], closed |-> run = "failed"]

Commit(p, M) ==
  /\ pc' = [pc EXCEPT ![p] = M.pc]
  /\ call' = [call EXCEPT ![p] = M.call]
  /\ loc' = [loc EXCEPT ![p] = M.loc]
  /\ w' = [w EXCEPT ![p] = M.st.w]
  /\ fs' = M.st.fs
  /\ appended' = [appended EXCEPT ![p] = M.st.app]
  /\ sealed' = [sealed EXCEPT ![p] = M.st.sealed]
  /\ hist' = [hist EXCEPT ![p] = M.hist]
  /\ raisers' = IF M.pc = "raised" THEN Append(raisers, p) ELSE raisers
  /\ limiter' = M.lim
  /\ waitOn' = [waitOn EXCEPT ![p] = M.wait]
  /\ M.ngets <= MaxGets
  /\ nGets' = M.ngets
  /\ nGrants' = M.ngrants
  /\ UNCHANGED <<part_size_mb, wlast, wprev, aw, impl, trace, requests, sleeps, rps, now, grants, ncalls, max_videos, error>>

Init ==
  /\ part_size_mb = 1
  /\ w = NoWriters /\ fs = EmptyDirs /\ appended = NoLines /\ wlast = "init"
  /\ wprev = NoPrev /\ sealed = NoLines /\ aw = NoWrite
  /\ HttpIdle
  /\ rps \in {1, 3}
  /\ limiter = RateLimiter(rps, 0)
  /\ now = 0 /\ waitOn = [p \in Procs |-> 0] /\ grants = NoGrants /\ ncalls = [p \in Procs |-> 0]
  /\ pc = [p \in Procs |-> "idle"]
  /\ loc = [p \in Procs |-> NoLocals]
  /\ max_videos \in {0, MaxVideos}
  /\ nGets = 0 /\ nGrants = 0 /\ faults = 0
  /\ hist = NoHist /\ raisers = <<>> /\ error = NoError
  /\ run = "running"

\* The session is open while the run is in progress.  Once gather has
\* raised, the session is closed and the task that awaited it has ended, but
\* the sibling tasks are not cancelled by gather: they stay scheduled until
\* the event loop is shut down.
Live == run \in {"running", "failed"}

\* time.monotonic() advances during the run, and goes on advancing after
\* gather has raised, while the sibling tasks are still scheduled.
PipeTick ==
  /\ Live /\ now < PipeMaxTime
  /\ now' = now + 1
  /\ UNCHANGED <<rps, limiter, waitOn, grants, ncalls, pipeVars, writerVars, httpVars>>

\* The task of channel p is run for the first time.
Start(p) ==
  /\ run = "running" /\ pc[p] = "idle"
  /\ Commit(p, OnStart(MOf(p), part_size_mb, now))
  /\ UNCHANGED <<faults, run>>

\* gather schedules every task before it suspends, and a task runs up to
\* its first suspension point before the loop polls for any response.
AllStarted == \A q \in Procs : pc[q] # "idle"

\* The pending request of channel p is answered with a decodable 200.  With
\* the session closed, this is a response that had been received before.
Respond(p) ==
  /\ Live /\ AllStarted /\ pc[p] \in ApiStages /\ call[p].phase = "get"
  /\ \E body \in GoodBodies(pc[p], p) : Commit(p, OnOutcome(MOf(p), p, Response(200, body, TRUE), now, max_videos))
  /\ UNCHANGED <<faults, run>>

\* The pending request of channel p fails.
Fail(p) ==
  /\ Live /\ AllStarted /\ pc[p] \in ApiStages /\ call[p].phase = "get"
  /\ faults < MaxFaults
  /\ \E out \in FaultOutcomes : Commit(p, OnOutcome(MOf(p), p, out, now, max_videos))
  /\ faults' = faults + 1
  /\ UNCHANGED run

\* The backoff sleep of channel p ends.
Wake(p) ==
  /\ Live /\ AllStarted /\ pc[p] \in ApiStages /\ call[p].phase = "sleep"
  /\ Commit(p, OnWake(MOf(p), p, now, max_videos))
  /\ UNCHANGED <<faults, run>>

\* asyncio.gather without return_exceptions: the exception of the first
\* task that raised is set on the future the caller awaits.
gather_exception(q) == Head(q)

\* The exception propagates out of gather, the `async with` block closes
\* the session and ingest_from_channel_reference raises to its caller.
\* error records what was raised, and the requests sent and the files on
\* disk at that moment.
GatherRaise ==
  /\ run = "running" /\ raisers # <<>>
  /\ run' = "failed"
  /\ error' = [by |-> gather_exception(raisers), exc |-> call[gather_exception(raisers)].exc, gets |-> nGets, files |-> fs]
  /\ UNCHANGED <<writerVars, httpVars, limVars, pc, loc, max_videos, nGets, nGrants, faults, hist, raisers>>

\* asyncio.run cancels the tasks still pending when the main task has ended.
\* CancelledError is raised at the point the task is suspended in: a task
\* waiting in Semaphore.acquire is taken off the semaphore's waiters, and a
\* task waiting in session.get or in the backoff sleep has its http_get_json
\* call ended by the exception, which its except clause does not catch.
Cancel(p) ==
  /\ run = "failed" /\ pc[p] \in ApiStages \cup {"blocked"}
  /\ pc' = [pc EXCEPT ![p] = "cancelled"]
  /\ waitOn' = [waitOn EXCEPT ![p] = 0]
  /\ call' = [call EXCEPT ![p] = IF @.phase \in {"get", "sleep"} THEN Raises(@, "CancelledError", @.status) ELSE @]
  /\ UNCHANGED <<writerVars, impl, trace, requests, sleeps, rps, limiter, now, grants, ncalls, pipeRest>>

\* Every task returned: gather returns and the run ends.
GatherDone ==
  /\ run = "running" /\ \A p \in Procs : pc[p] = "done"
  /\ run' = "done"
  /\ UNCHANGED <<writerVars, httpVars, limVars, pc, loc, max_videos, nGets, nGrants, faults, hist, raisers, error>>

Next == PipeTick \/ GatherRaise \/ GatherDone \/ \E p \in Procs : Start(p) \/ Respond(p) \/ Fail(p) \/ Wake(p) \/ Cancel(p)

Spec == Init /\ [][Next]_vars

\* The run against a server that answers every request with a decodable
\* 200: no attempt fails, so no task sleeps or raises.
NextServed == PipeTick \/ GatherDone \/ \E p \in Procs : Start(p) \/ Respond(p)

SpecServed == Init /\ [][NextServed]_vars

\* The clock advances, and gather returns once every task has returned.
FairSpecServed == SpecServed /\ WF_vars(PipeTick) /\ WF_vars(GatherDone)

(***************************************************************************)
(* Listing harness: one search_list_videos_of_channel call against a       *)
(* server that answers each page request with any items and any token (it  *)
(* is not held to the maxResults it was sent), for at most MaxPages pages. *)
(***************************************************************************)
MaxPages == 3
MaxListed == 2

ListingMaxVideos == (0 - 1)..MaxListed
ListingPages == {Body(q, tok) : q \in SeqsUpTo(SearchItems, MaxListed), tok \in {"", "next"}}

\* The params of a page request: maxResults and, when set, pageToken.
search_params(L, mv) == [maxResults |-> Min(50, mv - Len(L.video_ids)), pageToken |-> L.page_token]

InitListing ==
  /\ max_videos \in ListingMaxVideos
  /\ loc = [p \in Procs |-> NoLocals]
  /\ pc = [p \in Procs |-> IF p = 1 THEN (IF Len(NoLocals.video_ids) < max_videos THEN "search_list" ELSE "returned") ELSE "idle"]
  /\ requests = IF Len(NoLocals.video_ids) < max_videos THEN <<search_params(NoLocals, max_videos)>> ELSE <<>>
  /\ impl = "yt_ingest" /\ call = NoCalls /\ trace = <<>> /\ sleeps = <<>>
  /\ nGets = 0 /\ nGrants = 0 /\ faults = 0 /\ hist = NoHist /\ raisers = <<>> /\ error = NoError /\ run = "idle"
  /\ WriterIdle /\ LimIdle

\* http_get_json returns a page; the loop body runs up to the next request
\* or to the return statement.
ListingPage == \E data \in ListingPages :
  /\ pc[1] = "search_list" /\ Len(trace) < MaxPages
  /\ trace' = Append(trace, Response(200, data, TRUE))
  /\ LET L1 == search_page(loc[1], data)
     IN  /\ loc' = [loc EXCEPT ![1] = L1]
         /\ pc' = [pc EXCEPT ![1] = IF search_continues(L1, max_videos) THEN "search_list" ELSE "returned"]
         /\ requests' = IF search_continues(L1, max_videos) THEN Append(requests, search_params(L1, max_videos)) ELSE requests
  /\ UNCHANGED <<impl, call, sleeps, max_videos, nGets, nGrants, faults, hist, raisers, error, run, writerVars, limVars>>

NextListing == ListingPage

SpecListing == InitListing /\ [][NextListing]_vars

(***************************************************************************)
(* Details harness: one videos_list_details call on a list of IDs (named   *)
(* by their position, some lists with a repeated ID), the server answering *)
(* each chunk with none, some or all of a few of its IDs, in any order.    *)
(***************************************************************************)
DetailLengths == {0, 1, 2, 49, 50, 51, 99, 100, 101, 150}
DetailInputs == {[i \in 1..n |-> i] : n \in DetailLengths} \cup {<<7, 7>>, [i \in 1..52 |-> IF i > 50 THEN 1 ELSE i]}

\* What the server may answer to the request for one chunk.
DetailResponses(chunk) == {EmptyJson, Body(<<>>, ""), Body(<<Item("youtube#video", chunk[1], 0)>>, ""),
                           Body(<<Item("youtube#video", chunk[Len(chunk)], 0), Item("youtube#video", chunk[1], 0)>>, "")}

InitDetails ==
  /\ \E ids \in DetailInputs :
       /\ loc = [p \in Procs |-> IF p = 1 THEN [NoLocals EXCEPT !.video_ids = ids] ELSE NoLocals]
       /\ pc = [p \in Procs |-> IF p = 1 THEN (IF ids = <<>> THEN "returned" ELSE "videos_list") ELSE "idle"]
       /\ requests = IF ids = <<>> THEN <<>> ELSE <<Chunk(ids, 0)>>
  /\ impl = "yt_ingest" /\ call = NoCalls /\ trace = <<>> /\ sleeps = <<>>
  /\ max_videos = 0 /\ nGets = 0 /\ nGrants = 0 /\ faults = 0 /\ hist = NoHist /\ raisers = <<>> /\ error = NoError /\ run = "idle"
  /\ WriterIdle /\ LimIdle

\* http_get_json returns the answer to the chunk requested last; the loop
\* runs up to the next request or to the return statement.
DetailsChunk ==
  /\ pc[1] = "videos_list"
  /\ \E data \in DetailResponses(requests[Len(requests)]) :
       /\ trace' = Append(trace, Response(200, data, TRUE))
       /\ LET L1 == details_chunk(loc[1], data)
          IN  /\ loc' = [loc EXCEPT ![1] = L1]
              /\ pc' = [pc EXCEPT ![1] = IF details_continues(L1) THEN "videos_list" ELSE "returned"]
              /\ requests' = IF details_continues(L1) THEN Append(requests, Chunk(L1.video_ids, L1.i)) ELSE requests
  /\ UNCHANGED <<impl, call, sleeps, max_videos, nGets, nGrants, faults, hist, raisers, error, run, writerVars, limVars>>

NextDetails == DetailsChunk

SpecDetails == InitDetails /\ [][NextDetails]_vars

(***************************************************************************)
(* C1: after close(), the partition files of a single writer, read back in *)
(* index order and decompressed, are exactly the lines appended, in append *)
(* order: none missing, none duplicated, none reordered.                   *)
(***************************************************************************)
C1_RoundTrip == wlast = "close" => ReadDir(fs["videos"].files) = appended[1]["videos"]

\* Several partitions were sealed, the last one by close(), all read back.
C1_Witness ==
  /\ wlast = "close"
  /\ w[1]["videos"].file_index >= 3
  /\ Len(appended[1]["videos"]) = MaxWrites
  /\ \E i, j \in 1..MaxWrites : appended[1]["videos"][i] # appended[1]["videos"][j]

(***************************************************************************)
(* Claims about http_get_json, stated on the harness call's history.       *)
(***************************************************************************)
HttpFinished == call[1].phase \in {"returned", "raised"}

IsStatus(out, set) == out.kind = "response" /\ out.status \in set

(***************************************************************************)
(* C6: a non-2xx status other than 429, 500, 502, 503, 504 fails at once,  *)
(* on whichever attempt it occurs: that attempt is the last GET, no        *)
(* backoff sleep follows it, and the HTTP error is raised to the caller.   *)
(***************************************************************************)
C6_PermanentStatusFailsAtOnce ==
  \A i \in 1..Len(trace) :
    IsStatus(trace[i], {400, 403, 404}) =>
      ( /\ i = Len(trace)
        /\ Len(sleeps) = i - 1
        /\ call[1].phase = "raised"
        /\ call[1].exc = "ClientResponseError" )

(***************************************************************************)
(* C7: 503 exactly K times (K < MAX_RETRIES) and then 200: the call        *)
(* returns the decoded body after exactly K+1 GETs and exactly K sleeps of *)
(* 2^a + 0.1*a seconds for a = 0..K-1, strictly increasing.                *)
(***************************************************************************)
C7_Pattern(K) ==
  /\ Len(trace) = K + 1
  /\ \A i \in 1..K : IsStatus(trace[i], {503})
  /\ IsStatus(trace[K + 1], {200}) /\ trace[K + 1].decodes

C7_RetryThenSuccess ==
  \A K \in 0..(MAX_RETRIES - 1) :
    C7_Pattern(K) =>
      ( /\ call[1].phase = "returned"
        /\ call[1].body = trace[K + 1].body
        /\ Len(sleeps) = K
        /\ \A a \in 0..(K - 1) : sleeps[a + 1] = 10 * (2 ^ a) + a
        /\ \A a \in 1..(K - 1) : sleeps[a] < sleeps[a + 1] )

\* The longest pattern: four 503 answers, then a 200 with a non-empty body.
C7_Witness ==
  /\ C7_Pattern(MAX_RETRIES - 1)
  /\ call[1].phase = "returned"
  /\ call[1].body.items # <<>>
  /\ sleeps = <<10, 21, 42, 83>>

(***************************************************************************)
(* C8 as claimed: when all MAX_RETRIES attempts receive a retryable status *)
(* the call returns an empty JSON object instead of raising.               *)
(***************************************************************************)
C8_Pattern ==
  /\ Len(trace) = MAX_RETRIES
  /\ \A i \in 1..MAX_RETRIES : IsStatus(trace[i], {429, 500, 502, 503, 504})
  /\ HttpFinished

C8_ExhaustedReturnsEmpty == C8_Pattern => (call[1].phase = "returned" /\ call[1].body = EmptyJson)

(***************************************************************************)
(* C8 as amended: after MAX_RETRIES retryable statuses (and MAX_RETRIES    *)
(* sleeps) the package's http_get_json raises RuntimeError; only the       *)
(* older http_get_json of main.py returns an empty JSON object.            *)
(***************************************************************************)
C8_ExhaustedRaisesInPackage ==
  C8_Pattern =>
    ( /\ Len(sleeps) = MAX_RETRIES
      /\ (impl = "yt_ingest") => (call[1].phase = "raised" /\ call[1].exc = "RuntimeError")
      /\ (impl = "main") => (call[1].phase = "returned" /\ call[1].body = EmptyJson) )

C8_Witness == C8_Pattern /\ impl = "yt_ingest" /\ call[1].phase = "raised" /\ trace[MAX_RETRIES].status = 429

(***************************************************************************)
(* C9: whatever the outcomes, at most MAX_RETRIES GETs are made, status    *)
(* and exception retries sharing the one attempt counter; when all         *)
(* MAX_RETRIES attempts end in a transport exception, the exception of the *)
(* last attempt is raised.                                                 *)
(***************************************************************************)
C9_AllTransportErrors == Len(trace) = MAX_RETRIES /\ \A i \in 1..MAX_RETRIES : trace[i].kind = "error"

C9_BoundedAttempts ==
  /\ Len(trace) <= MAX_RETRIES
  /\ (call[1].phase \in {"get", "sleep"}) => (call[1].attempt < MAX_RETRIES)
  /\ call[1].attempt = (IF call[1].phase = "get" THEN Len(trace) ELSE Len(trace) - 1)
  /\ C9_AllTransportErrors => (call[1].phase = "raised" /\ call[1].exc = trace[MAX_RETRIES].exc)

\* Five transport failures of both kinds; the last one, a timeout, is raised.
C9_Witness ==
  /\ C9_AllTransportErrors
  /\ trace[1].exc = "ClientConnectionError"
  /\ trace[MAX_RETRIES].exc = "TimeoutError"
  /\ call[1].phase = "raised" /\ call[1].exc = "TimeoutError"

\* A status retry and an exception retry in one call, ended by a success.
C9_MixedWitness ==
  /\ Len(trace) = MAX_RETRIES
  /\ IsStatus(trace[1], {503}) /\ trace[2].kind = "error" /\ call[1].phase = "returned"

(***************************************************************************)
(* Claims about RateLimiter, stated on the limiter harness.                *)
(***************************************************************************)
RECURSIVE SumGrants(_, _)
SumGrants(from, to) == IF from > to \/ from > MaxTime THEN 0 ELSE grants[from] + SumGrants(from + 1, to)

(***************************************************************************)
(* C3: every acquire() call eventually returns: a caller suspended on an   *)
(* exhausted pool is resumed once a later window provides a permit.        *)
(***************************************************************************)
C3_AcquireReturns == \A p \in Procs : (pc[p] = "blocked") ~> (pc[p] # "blocked")

(***************************************************************************)
(* C4: in any window of one second (closed at both ends) at most 2*N       *)
(* acquire() calls return, N = max(1, rps).                                *)
(***************************************************************************)
C4_WindowBound == \A t \in 0..MaxTime : SumGrants(t, t + TicksPerSec) <= 2 * (IF rps >= 1 THEN rps ELSE 1)

\* The bound is met: N grants held over from one window and N right after
\* the reset, with N = 2.
C4_Witness ==
  /\ rps = 2
  /\ limiter.sem_id = 2
  /\ \E t \in 0..MaxTime : SumGrants(t, t + TicksPerSec - 1) = 4

(***************************************************************************)
(* Claims about the run, stated on Spec.                                   *)
(***************************************************************************)
SeqToSet(q) == {q[i] : i \in 1..Len(q)}

Distinct(q) == Cardinality(SeqToSet(q)) = Len(q)

RECURSIVE IsSubseq(_, _)
\* a is b with some elements left out, the order kept.
IsSubseq(a, b) == IF a = <<>> THEN TRUE
  ELSE IF b = <<>> THEN FALSE
  ELSE IF Head(a) = Head(b) THEN IsSubseq(Tail(a), Tail(b))
  ELSE IsSubseq(a, Tail(b))

IdsOfType(lines, type) == LET sel == SelectSeq(lines, LAMBDA ln : ln.text.type = type) IN [i \in 1..Len(sel) |-> sel[i].text.videoId]

(***************************************************************************)
(* C2: when a run over two or more channels completes without error, every *)
(* record each channel emitted is in the partition files of its stream's   *)
(* directory, each channel's records in their emission order (no file of   *)
(* one channel's writer was replaced by another's).                        *)
(***************************************************************************)
C2_NoRecordLost == run = "done" => \A p \in Procs, s \in Streams : IsSubseq(appended[p][s], ReadDir(fs[s].files))

(***************************************************************************)
(* C5: every GET is preceded by its own acquire() grant: the GETs sent     *)
(* never outnumber the permits granted.                                    *)
(***************************************************************************)
C5_GetsWithinGrants == nGets <= nGrants

(***************************************************************************)
(* C10: M distinct requested IDs, details returned for a strict subset of  *)
(* R of them: the channel's video stream receives exactly R video-records  *)
(* and M-R not-found records, with disjoint videoId sets whose union is    *)
(* the requested set.                                                      *)
(***************************************************************************)
C10_Case(p) ==
  /\ pc[p] = "done"
  /\ loc[p].video_ids # <<>>
  /\ Distinct(loc[p].video_ids)
  /\ Distinct(ItemIds(loc[p].details))
  /\ SeqToSet(ItemIds(loc[p].details)) \subseteq SeqToSet(loc[p].video_ids)
  /\ SeqToSet(ItemIds(loc[p].details)) # SeqToSet(loc[p].video_ids)

C10_AuditComplete ==
  \A p \in Procs :
    C10_Case(p) =>
      LET videos == IdsOfType(appended[p]["videos"], "youtube_video")
          audit == IdsOfType(appended[p]["videos"], "not_found")
      IN  /\ Len(videos) = Len(loc[p].details)
          /\ Len(audit) = Len(loc[p].video_ids) - Len(loc[p].details)
          /\ Len(videos) + Len(audit) = Len(appended[p]["videos"])
          /\ SeqToSet(videos) \cap SeqToSet(audit) = {}
          /\ SeqToSet(videos) \cup SeqToSet(audit) = SeqToSet(loc[p].video_ids)

\* Two IDs requested, one detail item returned, one audit record written.
C10_Witness == \E p \in Procs : C10_Case(p) /\ Len(loc[p].video_ids) = 2 /\ Len(loc[p].details) = 1
  /\ IdsOfType(appended[p]["videos"], "not_found") # <<>>

(***************************************************************************)
(* C11: when the listing of a channel returns no IDs, the task appends     *)
(* exactly one info-notice to the channel stream, after the channel        *)
(* records, sends no videos.list request, makes no third acquire() call,   *)
(* appends nothing to the video stream and closes both writers; the video  *)
(* writer has written no partition file.                                   *)
(***************************************************************************)
C11_Case(p) == pc[p] = "done" /\ loc[p].video_ids = <<>>

C11_EmptyListing ==
  \A p \in Procs :
    C11_Case(p) =>
      LET ch == appended[p]["channels"]
          n == Len(ch)
      IN  /\ n >= 1
          /\ ch[n].text = InfoRecord(p)
          /\ \A i \in 1..(n - 1) : ch[i].text.type = "youtube_channel"
          /\ hist[p].gets["videos_list"] = 0
          /\ hist[p].acq = 2
          /\ appended[p]["videos"] = <<>>
          /\ w[p]["channels"].buf = <<>> /\ w[p]["videos"].buf = <<>>
          /\ sealed[p]["videos"] = <<>> /\ w[p]["videos"].file_index = 0

\* A channel record, then two listing pages without a video, then the notice.
C11_Witness == \E p \in Procs : C11_Case(p) /\ max_videos > 0 /\ hist[p].gets["search_list"] >= 2
  /\ Len(appended[p]["channels"]) = 2 /\ sealed[p]["channels"] # <<>>

(***************************************************************************)
(* C12: at every instant, a crash between two statements of                *)
(* atomic_write_bytes included, a final path does not exist or holds a     *)
(* complete payload that was written in full and fsynced; after a          *)
(* successful write no temporary file of that path remains, and the        *)
(* directory is what the write as one indivisible step makes of it.        *)
(***************************************************************************)
C12_NeverPartial ==
  LET files == fs["videos"].files
  IN  /\ \A n \in DOMAIN files : ~n.tmp => (files[n] \in StoragePayloads /\ files[n] \in aw.log)
      /\ aw.step = "done" =>
           ( /\ TmpName(aw.path) \notin DOMAIN files
             /\ files[aw.path] = aw.data
             /\ files = atomic_write_bytes(aw.before, aw.path, aw.data) )

\* The process died with part of a payload in the temporary file, while the
\* final path still holds the complete payload of an earlier write.
C12_Witness ==
  LET files == fs["videos"].files
  IN  /\ aw.step = "crashed"
      /\ aw.path \in DOMAIN files /\ TmpName(aw.path) \in DOMAIN files
      /\ files[TmpName(aw.path)] = FileContent(aw.data, "part")
      /\ files[aw.path] \in StoragePayloads \ {aw.data}

(***************************************************************************)
(* C13: when a channel task raises, ingest_from_channel_reference raises   *)
(* the first error to its caller, and from then on the sibling tasks send  *)
(* no HTTP request and write no partition file.                            *)
(***************************************************************************)
C13_FirstErrorRaised == run = "failed" => (error.by = Head(raisers) /\ error.exc = call[Head(raisers)].exc /\ error.exc # "none")

C13_NoRequestAfterAbort == run = "failed" => nGets = error.gets

C13_NoWriteAfterAbort == run = "failed" => fs = error.files

C13_AbortStopsSiblings == C13_FirstErrorRaised /\ C13_NoRequestAfterAbort /\ C13_NoWriteAfterAbort

(***************************************************************************)
(* C14: for every sequence of page responses the listing returns at most   *)
(* max_videos IDs, exactly the videoIds of the items whose id.kind is      *)
(* youtube#video and whose videoId is not empty, in the order the server   *)
(* returned them across the pages.                                         *)
(***************************************************************************)
RECURSIVE VideoIdsServed(_)
VideoIdsServed(pages) == IF pages = <<>> THEN <<>>
  ELSE LET items == Head(pages).body.items
           kept == SelectSeq(items, LAMBDA it : it.kind = "youtube#video" /\ it.id # "")
       IN  [i \in 1..Len(kept) |-> kept[i].id] \o VideoIdsServed(Tail(pages))

C14_OnlyVideosInOrder == pc[1] = "returned" => loc[1].video_ids = VideoIdsServed(trace)

C14_AtMostMaxVideos == pc[1] = "returned" => Len(loc[1].video_ids) <= Max(0, max_videos)

C14_ListingCapped == C14_OnlyVideosInOrder /\ C14_AtMostMaxVideos

(***************************************************************************)
(* Claims about one writer, stated on the writer harness and its history   *)
(* of sealed partitions.                                                   *)
(***************************************************************************)
Front(q) == SubSeq(q, 1, Len(q) - 1)

(***************************************************************************)
(* C15: every partition sealed by a threshold-triggered rotation has an    *)
(* uncompressed size >= target_bytes, and its records without the last one *)
(* measure < target_bytes; only a partition sealed by close() may be       *)
(* smaller than target_bytes.                                              *)
(***************************************************************************)
C15_ThresholdRotation ==
  \A i \in 1..Len(sealed[1]["videos"]) :
    LET e == sealed[1]["videos"][i]
    IN  /\ e.by = "write_line" =>
             ( /\ BufTell(e.lines) >= w[1]["videos"].target_bytes
               /\ BufTell(Front(e.lines)) < w[1]["videos"].target_bytes )
        /\ BufTell(e.lines) < w[1]["videos"].target_bytes => e.by = "close"

(***************************************************************************)
(* C15, for the thresholds it holds for: with part_size_mb >= 1 every      *)
(* partition sealed by a threshold-triggered rotation measures at least    *)
(* target_bytes and less than target_bytes without its last record, and    *)
(* only a partition sealed by close() is smaller than target_bytes; with   *)
(* part_size_mb <= 0 (target_bytes <= 0) every write_line seals a          *)
(* partition of exactly one record and close() seals none.                 *)
(***************************************************************************)
C15_ThresholdRotationPositive ==
  /\ part_size_mb >= 1 => C15_ThresholdRotation
  /\ part_size_mb <= 0 =>
       ( /\ w[1]["videos"].buf = <<>>
         /\ Len(sealed[1]["videos"]) = Len(appended[1]["videos"])
         /\ \A i \in 1..Len(sealed[1]["videos"]) :
              sealed[1]["videos"][i].by = "write_line" /\ sealed[1]["videos"][i].lines = <<appended[1]["videos"][i]>> )

\* A partition of two records sealed by the second one, then a smaller
\* partition sealed by close().
C15_Witness ==
  /\ Len(sealed[1]["videos"]) >= 2
  /\ sealed[1]["videos"][1].by = "write_line" /\ Len(sealed[1]["videos"][1].lines) = 2
  /\ sealed[1]["videos"][2].by = "close"
  /\ BufTell(sealed[1]["videos"][2].lines) < w[1]["videos"].target_bytes

(***************************************************************************)
(* C16: close() on an empty buffer (a second close(), a writer that never  *)
(* received a record, a writer whose last write_line rotated) writes no    *)
(* partition file and leaves file_index and the buffer unchanged.          *)
(***************************************************************************)
C16_CloseOnEmptyIsNoOp ==
  (wlast = "close" /\ wprev.w.buf = <<>>) =>
    ( /\ fs["videos"].files = wprev.files
      /\ w[1]["videos"].file_index = wprev.w.file_index
      /\ w[1]["videos"].buf = <<>>
      /\ w[1]["videos"] = wprev.w )

\* close() was called on an empty buffer after partitions had been written.
C16_Witness == wlast = "close" /\ wprev.w.buf = <<>> /\ wprev.w.file_index >= 2 /\ Len(sealed[1]["videos"]) = 2

\* close() was called on a writer that never received a record.
C16_WitnessFresh == wlast = "close" /\ wprev.w.buf = <<>> /\ appended[1]["videos"] = <<>> /\ fs["videos"].files = <<>>

(***************************************************************************)
(* C19: after any sequence of write_line and close calls the partition     *)
(* files of the writer are exactly part-00000 .. part-(file_index-1):      *)
(* the indices start at 0, are contiguous, are assigned in write order,    *)
(* and no index is written twice.                                          *)
(***************************************************************************)
C19_ContiguousIndices ==
  LET log == sealed[1]["videos"]
      files == fs["videos"].files
  IN  /\ Len(log) = w[1]["videos"].file_index
      /\ \A i \in 1..Len(log) : log[i].path = [part |-> i - 1, tmp |-> FALSE]
      /\ DOMAIN files = {[part |-> i, tmp |-> FALSE] : i \in 0..(w[1]["videos"].file_index - 1)}
      /\ \A i \in 1..Len(log) : files[log[i].path] = [gz |-> log[i].lines]

\* Three partitions, sealed by rotations and by close() calls.
C19_Witness ==
  /\ w[1]["videos"].file_index = 3
  /\ \E i, j \in 1..3 : sealed[1]["videos"][i].by = "write_line" /\ sealed[1]["videos"][j].by = "close"

(***************************************************************************)
(* C17: for an input list of M IDs, videos_list_details sends exactly      *)
(* ceil(M/50) GETs (none when M = 0); the chunks are consecutive slices of *)
(* at most 50 IDs that together are the input list, in order, no ID        *)
(* repeated or skipped; the result is the concatenation of the responses'  *)
(* item lists in chunk order.                                              *)
(***************************************************************************)
RECURSIVE Flatten(_)
Flatten(qq) == IF qq = <<>> THEN <<>> ELSE Head(qq) \o Flatten(Tail(qq))

ItemsServed(tr) == [k \in 1..Len(tr) |-> IF "items" \in tr[k].body.keys THEN tr[k].body.items ELSE <<>>]

C17_ChunkedDetails ==
  pc[1] = "returned" =>
    LET ids == loc[1].video_ids
        m == Len(ids)
    IN  /\ Len(requests) = (m + 49) \div 50
        /\ Len(trace) = Len(requests)
        /\ \A k \in 1..Len(requests) :
             /\ Len(requests[k]) \in 1..50
             /\ requests[k] = SubSeq(ids, 50 * (k - 1) + 1, IF 50 * k <= m THEN 50 * k ELSE m)
        /\ Flatten(requests) = ids
        /\ loc[1].details = Flatten(ItemsServed(trace))

\* 101 IDs: chunks of 50, 50 and 1, answered in part and out of order.
C17_Witness ==
  /\ pc[1] = "returned" /\ Len(loc[1].video_ids) = 101
  /\ Len(requests) = 3 /\ requests[3] = <<101>>
  /\ ItemIds(loc[1].details) = <<50, 1, 51, 101, 101>>

(***************************************************************************)
(* C18: a run in which every request receives a successful response        *)
(* eventually completes, for any rps >= 1: every task ends with both       *)
(* writers closed and gather returns (the run may only go on while the     *)
(* server keeps handing out further pages).                                *)
(***************************************************************************)
Pending(p) == pc[p] \in ApiStages /\ call[p].phase = "get"

\* asyncio starts every task, and every request sent is answered.
C18_Served == \A p \in Procs : []<>(pc[p] # "idle") /\ []<>(~Pending(p))

C18_RunCompletes == C18_Served => <>(run = "done" \/ nGets >= MaxGets)

(***************************************************************************)
(* C20: when a step of a channel task raises, neither writer of the task   *)
(* is closed: its partitions are those sealed by threshold rotations       *)
(* before the failure, and the records appended since the last rotation    *)
(* stay in the buffer, never written.                                      *)
(***************************************************************************)
SealedLines(log) == Flatten([i \in 1..Len(log) |-> log[i].lines])

C20_NothingFlushedOnFailure ==
  \A p \in Procs :
    pc[p] = "raised" =>
      \A s \in Streams :
        /\ \A i \in 1..Len(sealed[p][s]) : sealed[p][s][i].by = "write_line"
        /\ Len(sealed[p][s]) = w[p][s].file_index
        /\ appended[p][s] = SealedLines(sealed[p][s]) \o w[p][s].buf

\* Two failed tasks: one whose channel record was sealed by a threshold
\* rotation before the failure, one whose channel record is left in the
\* buffer of a writer that was never closed.
C20_Witness ==
  \E p, q \in Procs :
    /\ pc[p] = "raised" /\ pc[q] = "raised"
    /\ Len(sealed[p]["channels"]) = 1 /\ w[p]["channels"].buf = <<>>
    /\ sealed[q]["channels"] = <<>> /\ Len(w[q]["channels"].buf) = 1 /\ hist[q].gets["search_list"] >= 1


(***************************************************************************)
(* C21: search_list_videos_of_channel issues a further page request only   *)
(* while fewer than max_videos IDs are collected and the previous response *)
(* carried a non-empty nextPageToken; with max_videos <= 0 it issues no    *)
(* request and returns an empty list; and the loop terminates for every    *)
(* server behaviour.  Termination is stated on one page: no response may   *)
(* leave the loop running with its locals (video_ids, page_token) as they  *)
(* were before the request, because a server that repeats that response    *)
(* then keeps the loop running for ever.                                   *)
(***************************************************************************)
C21_RequestOnlyWhileNeeded == \A i \in 1..Len(requests) :
  /\ requests[i].maxResults >= 1
  /\ requests[i].maxResults = Min(50, max_videos - Len(VideoIdsServed(SubSeq(trace, 1, i - 1))))
  /\ i > 1 => (trace[i - 1].body.nextPageToken # "" /\ requests[i].pageToken = trace[i - 1].body.nextPageToken)
  /\ i = 1 => requests[i].pageToken = ""

C21_NoRequestWhenNonPositive == max_videos <= 0 => (requests = <<>> /\ pc[1] = "returned" /\ loc[1].video_ids = <<>>)

C21_RequestsFollowPages == Len(requests) = Len(trace) + (IF pc[1] = "search_list" THEN 1 ELSE 0)

C21_PagingGuards == C21_RequestOnlyWhileNeeded /\ C21_NoRequestWhenNonPositive /\ C21_RequestsFollowPages

C21_EveryPageAdvances == [][pc'[1] = "search_list" => loc'[1] # loc[1]]_vars

C21_ListingTerminates == []C21_PagingGuards /\ C21_EveryPageAdvances

\* The guards of the loop at work: a second request was sent after a page
\* with a token and too few IDs, and the call has returned.
C21_GuardsWitness == Len(requests) >= 2 /\ pc[1] = "returned" /\ Len(loc[1].video_ids) >= 1


(***************************************************************************)
(* C22: when a call of http_get_json has ended, the number of backoff      *)
(* sleeps it made is at most the number of its GET attempts minus one: it  *)
(* sleeps only between attempts, never after the final one, whether that   *)
(* attempt ended in a retryable status or in a transport exception.        *)
(***************************************************************************)
C22_LastRetryable == Len(trace) = MAX_RETRIES /\ IsStatus(trace[MAX_RETRIES], RETRY_STATUSES)

\* What the code does: one sleep after every attempt but the final one,
\* and one more when the attempt that used up the counter had a retryable
\* status.
C22_SleepCount == (impl = "yt_ingest" /\ HttpFinished) =>
  Len(sleeps) = (IF C22_LastRetryable THEN Len(trace) ELSE Len(trace) - 1)

C22_SleepsOnlyBetweenAttempts == (impl = "yt_ingest" /\ HttpFinished) => Len(sleeps) <= Len(trace) - 1

====
